---- MODULE Spec2Model ----
(***************************************************************************)
(* Model of the btrfs snapshotter (pkg/snapshotter/btrfs.go) of the        *)
(* elemental toolkit together with the collaborators it drives: the        *)
(* subvolume backend, the mounter, the bootloader environment file and the *)
(* state.yaml writer of the action engine.                                 *)
(*                                                                         *)
(* Every handler of the Btrfs type is an operator over a record `s` that   *)
(* bundles the fields of the Btrfs instance, the on-disk state of the      *)
(* backend and the mount table.  The operator returns the record after the *)
(* handler ran, with `err` (the returned error is non-nil) and `ret` (the  *)
(* returned value).  The outcome of every fallible external step is an     *)
(* input: F is the set of the steps that fail in this call.                *)
(***************************************************************************)
EXTENDS Integers, Sequences, FiniteSets, TLC

\* ------------------------------------------------------------------ bounds
MaxSnaps == 2      \* snapCfg.MaxSnaps, the retention limit of the backend
MaxTx == 2         \* number of StartTransaction calls on one instance
MaxFail == 1       \* number of external steps that fail within one call
MaxCalls == 4      \* number of calls the engine makes on one instance

MaxInitID == MaxSnaps            \* highest snapshot id on an installed disk
MaxMounts == MaxTx               \* mounts stacked at one mount point
IDLimit == MaxInitID + MaxTx
IDs == 1..IDLimit

\* ------------------------------------------------------------- program state
VARIABLES
  action,            \* the action the engine runs: install, upgrade, reset, mount
  bootMode,          \* boot mode sentinel: active, passive, recovery, live
  rootDir,           \* Btrfs.rootDir ("" until probed)
  activeSnapshotID,  \* Btrfs.activeSnapshotID
  closureID,         \* snapshotID captured by Btrfs.snapshotsMount (0: the no-op closure)
  umountSet,         \* Btrfs.snapshotsUmount is the real unmount closure
  backendIDs,        \* snapshots that exist under @/.snapshots
  backendDefault,    \* the default (active) snapshot of the backend, 0 if none
  backendLastID,     \* highest id the backend ever allocated
  backendPrev,       \* the snapshot that was the default before the last commit
  partitionInit,     \* InitBrfsPartition created @ and @/.snapshots
  snapMnt,           \* snapMnt[i]: mounts stacked at <root>/.snapshots/i/snapshot/.snapshots
  workMnt,           \* mounts stacked at constants.WorkingImgDir
  stateMnt,          \* subvolume the state partition is mounted at
  snapshots,         \* the types.Snapshot objects handed out, in order
  grubEnv,           \* content of <efiDir>/grub_oem_env
  stateFile,         \* state.yaml in the STATE partition
  recoveryFile,      \* state.yaml in the RECOVERY partition
  initCalls,         \* number of InitSnapshotter calls
  calls,             \* number of calls made so far
  initMountOps,      \* Mounter calls made by InitSnapshotter
  lastOp,            \* the operation that returned last, with the state before it
  prevOp,            \* the operation before lastOp
  call,              \* a call of a function of the types package or of the boot script
  result             \* what that call returned, once it returned

snapshotterVars ==
  <<action, bootMode, rootDir, activeSnapshotID, closureID, umountSet,
    backendIDs, backendDefault, backendLastID, backendPrev, partitionInit,
    snapMnt,
    workMnt, stateMnt, snapshots, grubEnv, stateFile, recoveryFile,
    initCalls, calls, initMountOps, lastOp, prevOp>>

vars == <<snapshotterVars, call, result>>

\* ------------------------------------------------------------------ helpers
RECURSIVE SetMax(_)
SetMax(S) == IF S = {} THEN 0
             ELSE LET x == CHOOSE x \in S : TRUE
                      m == SetMax(S \ {x})
                  IN IF x > m THEN x ELSE m

RECURSIVE SetMin(_)
SetMin(S) == IF S = {} THEN 0
             ELSE LET x == CHOOSE x \in S : TRUE
                      m == SetMin(S \ {x})
                  IN IF S \ {x} = {} \/ x < m THEN x ELSE m

\* the ids of a set as the ascending list the backend reports
RECURSIVE Ascending(_)
Ascending(S) == IF S = {} THEN << >>
                ELSE <<SetMin(S)>> \o Ascending(S \ {SetMin(S)})

Range(q) == {q[i] : i \in 1..Len(q)}

\* strconv.Itoa on the ids and indexes of the model
Itoa(n) == <<"0", "1", "2", "3", "4", "5", "6", "7", "8", "9", "10", "11", "12">>[n + 1]

\* the record the handlers work on
Cur == [rootDir |-> rootDir, active |-> activeSnapshotID, closureID |-> closureID,
        umountSet |-> umountSet, ids |-> backendIDs, def |-> backendDefault,
        last |-> backendLastID, prev |-> backendPrev, pinit |-> partitionInit, snapMnt |-> snapMnt,
        workMnt |-> workMnt, stateMnt |-> stateMnt, grubEnv |-> grubEnv,
        mountOps |-> 0, created |-> 0, rejected |-> FALSE, err |-> FALSE,
        ret |-> << >>, log |-> << >>]

Fail(s) == [s EXCEPT !.err = TRUE]
Ok(s) == [s EXCEPT !.err = FALSE]

\* the steps the two closes invoke, in the order they invoke them, each with
\* whether it succeeded
Logged(s, step, ok) == [s EXCEPT !.log = Append(@, [step |-> step, ok |-> ok])]

\* a step that returned with s
Returning(s, step) == Logged(s, step, ~s.err)

\* ------------------------------------------------------------------ mounter
\* Mounter.Unmount of a mount point holding cnt stacked mounts: it fails when
\* the step is one of the failing ones or when nothing is mounted there
UnmountErr(cnt, fail) == fail \/ cnt = 0

\* b.snapshotsMount(): the no-op closure of the constructor, or the closure
\* set by mountSnapshotsSubvolumeInSnapshot, which mounts @/.snapshots inside
\* the snapshot whose id it captured
snapshotsMount(s, fail) ==
  IF s.closureID = 0 THEN Ok(s)
  ELSE IF fail THEN Fail(s)
  ELSE Ok([s EXCEPT !.snapMnt[s.closureID] = @ + 1])

\* b.snapshotsUmount(): the no-op closure of the constructor, or the unmount
\* of the mount point of snapshotsMount
snapshotsUmount(s, fail) ==
  IF ~s.umountSet THEN Ok(s)
  ELSE IF UnmountErr(s.snapMnt[s.closureID], fail) THEN Fail(s)
  ELSE Ok([s EXCEPT !.snapMnt[s.closureID] = @ - 1])

\* ------------------------------------------------------------------ backend
\* CreateNewSnapshot with the id taken as one more than the highest id that
\* exists, so that the id of a deleted snapshot comes back
CreateNewSnapshotReusingIDs(s, baseID, fail) ==
  LET newID == IF baseID = 0 THEN 1 ELSE SetMax(s.ids) + 1
  IN IF fail \/ newID \in s.ids \/ newID > IDLimit THEN [Fail(s) EXCEPT !.ret = 0]
     ELSE [Ok(s) EXCEPT !.ids = @ \cup {newID}, !.last = newID, !.ret = newID]

\* subvolumeBackend.CreateNewSnapshot.  baseID = 0 asks for the first
\* snapshot, whose id is 1; any other snapshot gets the next id, never one
\* that was allocated before.  The first snapshot cannot be created twice.
CreateNewSnapshot(s, baseID, fail) ==
  LET newID == IF baseID = 0 THEN 1 ELSE s.last + 1
  IN IF fail \/ newID <= s.last \/ newID > IDLimit THEN [Fail(s) EXCEPT !.ret = 0]
     ELSE [Ok(s) EXCEPT !.ids = @ \cup {newID}, !.last = newID, !.ret = newID]

\* subvolumeBackend.CommitSnapshot: sets the snapshot as the default one
CommitSnapshot(s, id, fail) ==
  IF fail \/ id \notin s.ids THEN Fail(s)
  ELSE Ok([s EXCEPT !.def = id, !.prev = IF s.def = id THEN s.prev ELSE s.def])

\* subvolumeBackend.DeleteSnapshot: removes the snapshot; the default
\* snapshot cannot be removed
backendDeleteSnapshot(s, id, fail) ==
  IF fail \/ id = s.def THEN Fail(s) ELSE Ok([s EXCEPT !.ids = @ \ {id}])

\* retention: the oldest snapshots beyond MaxSnaps go first; the active one
\* and the one that was just demoted stay
RECURSIVE Prune(_, _)
Prune(ids, keep) ==
  IF Cardinality(ids) <= MaxSnaps \/ ids \ keep = {} THEN ids
  ELSE Prune(ids \ {SetMin(ids \ keep)}, keep)

\* subvolumeBackend.SnapshotsCleanup
SnapshotsCleanup(s, fail) ==
  IF fail THEN Fail(s) ELSE Ok([s EXCEPT !.ids = Prune(s.ids, {s.def, s.prev})])

\* -------------------------------------------------------------------- Btrfs
\* GetSnapshots, the listing: backend.ListSnapshots and the update of the
\* active snapshot id
listSnapshots(t, F) ==
  IF "list" \in F THEN [Fail(t) EXCEPT !.ret = << >>]
  ELSE [Ok(t) EXCEPT !.active = t.def, !.ret = Ascending(t.ids)]

\* GetSnapshots, the deferred function: l is the state the listing returned
\* with, u the state after b.snapshotsUmount()
getSnapshotsDeferred(l, u) ==
  IF ~l.err /\ u.err THEN [u EXCEPT !.ret = << >>]
  ELSE [u EXCEPT !.err = l.err, !.ret = l.ret]

\* GetSnapshots once the listing returned with l under a mount of its own
getSnapshotsListed(l, F) ==
  getSnapshotsDeferred(l, snapshotsUmount(l, "snapshotsUmount" \in F))

\* GetSnapshots once b.snapshotsMount() returned with m
getSnapshotsMounted(m, F) ==
  IF m.err THEN [m EXCEPT !.ret = << >>]
  ELSE getSnapshotsListed(listSnapshots(m, F), F)

\* GetSnapshots: ret is the list of ids
GetSnapshots(s, F) ==
  IF s.rootDir = "" THEN [Fail(s) EXCEPT !.ret = << >>]
  ELSE IF s.active > 0 THEN
    IF s.snapMnt[s.active] = 0
    THEN getSnapshotsMounted(snapshotsMount(s, "snapshotsMount" \in F), F)
    ELSE listSnapshots(s, F)
  ELSE [Ok(s) EXCEPT !.ret = << >>]

\* DeleteSnapshot once GetSnapshots returned with g
deleteListed(g, id, F) ==
  IF g.err THEN g
  ELSE IF id \notin Range(g.ret) THEN Ok(g)
  ELSE backendDeleteSnapshot(g, id, "DeleteSnapshot" \in F)

\* DeleteSnapshot
DeleteSnapshot(s, id, F) == deleteListed(GetSnapshots(s, F), id, F)

\* getPassiveSnapshots once GetSnapshots returned with g
passiveListed(g) ==
  IF g.err THEN g
  ELSE [g EXCEPT !.ret = SelectSeq(g.ret, LAMBDA x : x # g.active)]

\* getPassiveSnapshots
getPassiveSnapshots(s, F) == passiveListed(GetSnapshots(s, F))

\* setBootloader with a fallback list that stops one entry short, so that the
\* last boot entry is not in it
setPersistentVariablesShortFallback(p, F, id) ==
  LET ids == p.ret
      passives == [i \in 1..Len(ids) |-> Itoa(ids[Len(ids) + 1 - i])]
      fallbacks == [i \in 1..(Len(ids) + 1) |-> Itoa(i - 1)]
  IN IF p.err THEN p
     ELSE IF "SetPersistentVariables" \in F THEN Fail(p)
     ELSE Ok([p EXCEPT !.grubEnv = [fallback |-> fallbacks,
                                    passive_snapshots |-> passives,
                                    snapshotter |-> "btrfs",
                                    writtenBy |-> id]])

\* setBootloader once getPassiveSnapshots returned with p: passives are the
\* passive ids from last to first, fallbacks count 0..len(ids)+1
setPersistentVariables(p, F, id) ==
  LET ids == p.ret
      passives == [i \in 1..Len(ids) |-> Itoa(ids[Len(ids) + 1 - i])]
      fallbacks == [i \in 1..(Len(ids) + 2) |-> Itoa(i - 1)]
  IN IF p.err THEN p
     ELSE IF "SetPersistentVariables" \in F THEN Fail(p)
     ELSE Ok([p EXCEPT !.grubEnv = [fallback |-> fallbacks,
                                    passive_snapshots |-> passives,
                                    snapshotter |-> "btrfs",
                                    writtenBy |-> id]])

\* setBootloader; id is the snapshot whose commit writes the environment
setBootloader(s, F, id) == setPersistentVariables(getPassiveSnapshots(s, F), F, id)

\* subvolumeBackend.Probe: the active snapshot of the partition, the root
\* directory to manage it from and where the partition is mounted
Probe(s, fail) ==
  IF fail THEN Fail(s)
  ELSE Ok([s EXCEPT !.ret = [activeID |-> s.def, rootDir |-> "rootDir"]])

\* subvolumeBackend.InitBrfsPartition: creates @ and @/.snapshots
InitBrfsPartition(s, fail) ==
  IF fail THEN Fail(s) ELSE Ok([s EXCEPT !.pinit = TRUE])

\* elemental.IsActiveMode / elemental.IsPassiveMode: the boot mode sentinel
IsActiveMode(mode) == mode = "active"
IsPassiveMode(mode) == mode = "passive"

\* isInitiated once backend.Probe returned with p
probed(p) ==
  IF p.err THEN [p EXCEPT !.ret = FALSE]
  ELSE [p EXCEPT !.active = p.ret.activeID, !.rootDir = p.ret.rootDir,
                 !.ret = p.ret.activeID > 0]

\* isInitiated: ret is the returned bool
isInitiated(s, F) ==
  IF s.active > 0 THEN [Ok(s) EXCEPT !.ret = TRUE]
  ELSE IF s.rootDir # "" THEN [Ok(s) EXCEPT !.ret = FALSE]
  ELSE probed(Probe(s, "Probe" \in F))

\* mountSnapshotsSubvolumeInSnapshot once its first b.snapshotsMount()
\* returned with m: the snapshotsUmount closure is set after a mount that succeeded
snapshotsMounted(m) == IF m.err THEN m ELSE Ok([m EXCEPT !.umountSet = TRUE])

\* mountSnapshotsSubvolumeInSnapshot: sets the snapshotsMount closure, runs
\* it, and sets the snapshotsUmount closure
mountSnapshotsSubvolumeInSnapshot(s, snapshotID, F) ==
  snapshotsMounted(snapshotsMount([s EXCEPT !.closureID = snapshotID, !.mountOps = @ + 1],
                                  "snapshotsMount" \in F))

\* remountStatePartition from its Mounter.Mount on: m is the state after the
\* unmount
mountState(m, F) ==
  IF "MountState" \in F THEN Fail(m)
  ELSE IF m.active > 0
       THEN mountSnapshotsSubvolumeInSnapshot(Ok([m EXCEPT !.stateMnt = "@"]), m.active, F)
       ELSE Ok([m EXCEPT !.stateMnt = "@"])

\* remountStatePartition: unmount the state partition and mount it again at
\* the top level subvolume @
remountStatePartition(s, F) ==
  IF UnmountErr(IF s.stateMnt = "none" THEN 0 ELSE 1, "UnmountState" \in F)
  THEN Fail([s EXCEPT !.mountOps = @ + 1])
  ELSE mountState([s EXCEPT !.stateMnt = "none", !.mountOps = @ + 2], F)

\* InitSnapshotter when isInitiated answered false: p is the state
\* InitBrfsPartition returned with
partitionInitiated(p, F) == IF p.err THEN p ELSE remountStatePartition(p, F)

\* InitSnapshotter without the check of the boot mode
InitSnapshotterAlwaysRemounting(s, mode, F) ==
  IF isInitiated(s, F).ret THEN remountStatePartition(isInitiated(s, F), F)
  ELSE IF isInitiated(s, F).err THEN isInitiated(s, F)
  ELSE partitionInitiated(InitBrfsPartition(isInitiated(s, F), "InitBrfsPartition" \in F), F)

\* InitSnapshotter once isInitiated returned with i
initiated(i, mode, F) ==
  IF i.ret THEN
    IF IsActiveMode(mode) \/ IsPassiveMode(mode) THEN Ok(i)
    ELSE remountStatePartition(i, F)
  ELSE IF i.err THEN i
  ELSE partitionInitiated(InitBrfsPartition(i, "InitBrfsPartition" \in F), F)

\* InitSnapshotter
InitSnapshotter(s, mode, F) == initiated(isInitiated(s, F), mode, F)

NoSnapshot == [ID |-> 0, InProgress |-> FALSE]

\* the state CreateNewSnapshot left, with the id it created noted
noted(c) == [c EXCEPT !.created = c.ret, !.ret = NoSnapshot]

\* StartTransaction once backend.CreateNewSnapshot returned with c: created
\* is the id the backend created in this call, newID is the variable the
\* failure path of the mount hands to DeleteSnapshot, which is never assigned
snapshotCreated(c, F) ==
  LET newID == 0
  IN IF c.err THEN noted(c)
     ELSE IF "MkdirAll" \in F THEN Fail(noted(c))
     ELSE IF "Mount" \in F
          THEN [DeleteSnapshot(noted(c), newID, F) EXCEPT !.err = TRUE, !.ret = NoSnapshot]
     ELSE Ok([noted(c) EXCEPT !.workMnt = @ + 1,
                              !.ret = [ID |-> c.ret, InProgress |-> TRUE]])

\* StartTransaction: ret is the returned snapshot
StartTransaction(s, F) ==
  IF s.rootDir = "" THEN [Fail(s) EXCEPT !.ret = NoSnapshot]
  ELSE snapshotCreated(CreateNewSnapshot(s, s.active, "CreateNewSnapshot" \in F), F)

\* the unmount of the working directory that CloseTransactionOnError makes
\* for a snapshot in progress; its error is overwritten by DeleteSnapshot's
unmountWorkDir(s, snapshot, F) ==
  IF ~snapshot.InProgress THEN s
  ELSE IF UnmountErr(s.workMnt, "Unmount" \in F) THEN Logged(s, "Unmount", FALSE)
  ELSE Logged([s EXCEPT !.workMnt = @ - 1], "Unmount", TRUE)

\* the deferred function of the two closes: d is the state the body returned
\* with, m the state after b.snapshotsUmount()
deferredUmount(d, m) == [Returning(m, "snapshotsUmount") EXCEPT !.err = d.err \/ m.err]

\* a close from its deferred function on
closeDeferred(d, F) == deferredUmount(d, snapshotsUmount(d, "deferredUmount" \in F))

\* CloseTransactionOnError without the deletion of the snapshot
CloseTransactionOnErrorKeepingSnapshot(s, snapshot, F) ==
  closeDeferred(Ok(unmountWorkDir(s, snapshot, F)), F)

\* CloseTransactionOnError
CloseTransactionOnError(s, snapshot, F) ==
  closeDeferred(Returning(DeleteSnapshot(unmountWorkDir(s, snapshot, F), snapshot.ID, F),
                          "DeleteSnapshot"), F)

\* CloseTransaction after the commit: setBootloader and SnapshotsCleanup run,
\* their errors are dropped
snapshotCommitted(c, snapshot, F) ==
  IF c.err THEN c
  ELSE Ok(SnapshotsCleanup(setBootloader(c, F, snapshot.ID), "SnapshotsCleanup" \in F))

\* CloseTransaction with the commit made before the relabel
workDirMirroredCommittingFirst(m, snapshot, F) ==
  IF "ApplySELinuxLabels" \in F
  THEN Fail(Logged(snapshotCommitted(
                     Returning(CommitSnapshot(m, snapshot.ID, "CommitSnapshot" \in F),
                               "CommitSnapshot"), snapshot, F),
                   "ApplySELinuxLabels", FALSE))
  ELSE Logged(snapshotCommitted(
                Returning(CommitSnapshot(m, snapshot.ID, "CommitSnapshot" \in F),
                          "CommitSnapshot"), snapshot, F),
              "ApplySELinuxLabels", TRUE)

\* CloseTransaction once the working directory is mirrored and removed:
\* the relabel, then the commit
workDirMirrored(m, snapshot, F) ==
  IF "ApplySELinuxLabels" \in F THEN Fail(Logged(m, "ApplySELinuxLabels", FALSE))
  ELSE snapshotCommitted(
         Returning(CommitSnapshot(Logged(m, "ApplySELinuxLabels", TRUE), snapshot.ID,
                                  "CommitSnapshot" \in F), "CommitSnapshot"),
         snapshot, F)

\* CloseTransaction once the working directory is unmounted
workDirUnmounted(u, snapshot, F) ==
  IF snapshot.ID <= 1 THEN workDirMirrored(u, snapshot, F)
  ELSE IF "MirrorData" \in F THEN Fail(Logged(u, "MirrorData", FALSE))
  ELSE IF "RemoveAll" \in F
       THEN Fail(Logged(Logged(u, "MirrorData", TRUE), "RemoveAll", FALSE))
       ELSE workDirMirrored(Logged(Logged(u, "MirrorData", TRUE), "RemoveAll", TRUE),
                            snapshot, F)

\* CloseTransaction, the body up to its return
closeBody(s, snapshot, F) ==
  IF "MkdirAll" \in F THEN Fail(Logged(s, "MkdirAll", FALSE))
  ELSE IF UnmountErr(s.workMnt, "Unmount" \in F)
       THEN Fail(Logged(Logged(s, "MkdirAll", TRUE), "Unmount", FALSE))
       ELSE workDirUnmounted(Logged(Logged([s EXCEPT !.workMnt = @ - 1], "MkdirAll", TRUE),
                                    "Unmount", TRUE),
                             snapshot, F)

\* CloseTransaction, the deletion the deferred function makes when the body
\* returned an error
deleteOnError(b, snapshot, F) ==
  IF b.err
  THEN [Returning(DeleteSnapshot(b, snapshot.ID, F), "DeleteSnapshot") EXCEPT !.err = TRUE]
  ELSE b

\* CloseTransaction: the body up to its return, then the deferred function
CloseTransaction(s, snapshot, F) ==
  IF ~snapshot.InProgress THEN [Fail(s) EXCEPT !.rejected = TRUE]
  ELSE closeDeferred(deleteOnError(closeBody(s, snapshot, F), snapshot, F), F)


\* ---------------------------------------------------------------- the steps
InitSteps == {"Probe", "InitBrfsPartition", "UnmountState", "MountState", "snapshotsMount"}
ListSteps == {"list", "snapshotsMount", "snapshotsUmount"}
StartSteps == {"CreateNewSnapshot", "MkdirAll", "Mount"} \cup ListSteps
DeleteSteps == ListSteps \cup {"DeleteSnapshot"}
AbortSteps == {"Unmount", "deferredUmount"} \cup DeleteSteps
CloseSteps == {"MkdirAll", "Unmount", "MirrorData", "RemoveAll", "ApplySELinuxLabels",
               "CommitSnapshot", "SetPersistentVariables", "SnapshotsCleanup",
               "deferredUmount"} \cup DeleteSteps
WriteSteps == {"WriteState", "WriteRecovery"}

\* the sets of steps that fail within one call
Failures(steps) == {F \in SUBSET steps : Cardinality(F) <= MaxFail}

\* what GetSnapshots returns when no external step fails, and the active
\* snapshot id the instance holds once it has run
View(s) == Range(GetSnapshots(s, {}).ret)
ActiveID(s) == GetSnapshots(s, {}).active

\* the record kept of a call: what it was, what it returned and the state before it
\* (the state before it is kept for StartTransaction alone)
\* and whether the snapshot of a close had been closed before
Op(name, h, id, r) ==
  IF name = "StartTransaction"
  THEN [op |-> name, h |-> h, id |-> id, err |-> r.err, rejected |-> r.rejected,
        created |-> r.created, wasClosed |-> FALSE, preIDs |-> backendIDs,
        preView |-> View(Cur), preActive |-> ActiveID(Cur)]
  ELSE [op |-> name, h |-> h, id |-> id, err |-> r.err, rejected |-> r.rejected,
        created |-> 0, wasClosed |-> IF h \in 1..Len(snapshots) THEN snapshots[h].closed
                                     ELSE FALSE,
        preIDs |-> {}, preView |-> {}, preActive |-> 0]

NoOp == [op |-> "none", h |-> 0, id |-> 0, err |-> FALSE, rejected |-> FALSE,
         created |-> 0, wasClosed |-> FALSE, preIDs |-> {}, preView |-> {},
         preActive |-> 0]

\* the fields of the instance, the backend and the mount table after a call
Assign(r) ==
  /\ rootDir' = r.rootDir
  /\ activeSnapshotID' = r.active
  /\ closureID' = r.closureID
  /\ umountSet' = r.umountSet
  /\ backendIDs' = r.ids
  /\ backendDefault' = r.def
  /\ backendLastID' = r.last
  /\ backendPrev' = r.prev
  /\ partitionInit' = r.pinit
  /\ snapMnt' = r.snapMnt
  /\ workMnt' = r.workMnt
  /\ stateMnt' = r.stateMnt
  /\ grubEnv' = r.grubEnv

\* the last call, and the StartTransaction right before it if there was one
Record(o) ==
  /\ calls' = calls + 1
  /\ lastOp' = o
  /\ prevOp' = IF lastOp.op = "StartTransaction" THEN lastOp ELSE NoOp

\* the mount table stays within the bound of the model
Bounded(r) == r.workMnt <= MaxMounts /\ \A i \in IDs : r.snapMnt[i] <= MaxMounts

\* ------------------------------------------------------------ initial states
\* the state partition of an installed system: some snapshots, one the default
InstalledDisks ==
  {d \in [ids : SUBSET (1..MaxInitID), def : 1..MaxInitID] :
     d.def \in d.ids /\ Cardinality(d.ids) <= MaxSnaps}

\* install and reset run on a freshly formatted state partition
FreshDisk == [ids |-> {}, def |-> 0]

BootModes(a) ==
  CASE a = "install" -> {"live", "recovery"}
    [] a = "reset"   -> {"recovery"}
    [] a = "upgrade" -> {"active", "passive", "recovery"}
    [] a = "mount"   -> {"active", "passive"}

Disks(a) == IF a \in {"install", "reset"} THEN {FreshDisk} ELSE InstalledDisks

\* the environment file setBootloader leaves for a disk
EnvOf(d) ==
  LET ids == Ascending(d.ids \ {d.def})
  IN [fallback |-> [i \in 1..(Len(ids) + 2) |-> Itoa(i - 1)],
      passive_snapshots |-> [i \in 1..Len(ids) |-> Itoa(ids[Len(ids) + 1 - i])],
      snapshotter |-> "btrfs", writtenBy |-> d.def]

NoEnv == [fallback |-> << >>, passive_snapshots |-> << >>, snapshotter |-> "",
          writtenBy |-> 0]

\* no call of the types package is under way
NoCall == [fn |-> "none"]
NoResult == [done |-> FALSE]

Init ==
  /\ action \in {"install", "upgrade", "reset", "mount"}
  /\ bootMode \in BootModes(action)
  /\ \E d \in Disks(action) :
       /\ backendIDs = d.ids
       /\ backendDefault = d.def
       /\ backendLastID = SetMax(d.ids)
       /\ grubEnv = IF d.def = 0 THEN NoEnv ELSE EnvOf(d)
       /\ stateFile = [header |-> d.def # 0, snaps |-> d.ids]
       /\ recoveryFile = [header |-> d.def # 0, snaps |-> d.ids]
       /\ snapMnt = [i \in IDs |-> IF i = d.def /\ bootMode \in {"active", "passive"}
                                   THEN 1 ELSE 0]
       /\ stateMnt = IF d.def = 0 THEN "toplevel" ELSE "snapshot"
       /\ partitionInit = (d.def # 0)
  /\ backendPrev = 0
  /\ rootDir = ""
  /\ activeSnapshotID = 0
  /\ closureID = 0
  /\ umountSet = FALSE
  /\ workMnt = 0
  /\ snapshots = << >>
  /\ initCalls = 0
  /\ calls = 0
  /\ initMountOps = 0
  /\ lastOp = NoOp
  /\ prevOp = NoOp
  /\ call = NoCall
  /\ result = NoResult

\* ------------------------------------------------------------------ actions
\* the engine initialises the snapshotter once, before any transaction
DoInitSnapshotter ==
  /\ calls < MaxCalls
  /\ initCalls = 0
  /\ \E F \in Failures(InitSteps) :
       \E r \in {InitSnapshotter(Cur, bootMode, F)} :
          /\ Bounded(r)
          /\ Assign(r)
          /\ initMountOps' = r.mountOps
          /\ Record(Op("InitSnapshotter", 0, 0, r))
  /\ initCalls' = 1
  /\ UNCHANGED <<call, result, action, bootMode, snapshots, stateFile, recoveryFile>>

\* the engine gave up when InitSnapshotter failed, and mount runs no transaction
MayTransact ==
  /\ calls < MaxCalls
  /\ action # "mount"
  /\ ~(lastOp.op = "InitSnapshotter" /\ lastOp.err)

DoStartTransaction ==
  /\ MayTransact
  /\ Len(snapshots) < MaxTx
  /\ \E F \in Failures(StartSteps) :
       \E r \in {StartTransaction(Cur, F)} :
          /\ Bounded(r)
          /\ Assign(r)
          /\ snapshots' = IF r.err THEN snapshots
                          ELSE Append(snapshots, [ID |-> r.ret.ID,
                                                  InProgress |-> r.ret.InProgress,
                                                  closed |-> FALSE,
                                                  committed |-> FALSE])
          /\ Record(Op("StartTransaction", IF r.err THEN 0 ELSE Len(snapshots) + 1,
                       r.ret.ID, r))
  /\ UNCHANGED <<call, result, action, bootMode, stateFile, recoveryFile, initCalls, initMountOps>>

\* the snapshot object the caller holds
Snapshot(h) == [ID |-> snapshots[h].ID, InProgress |-> snapshots[h].InProgress]

DoCloseTransaction ==
  /\ MayTransact
  /\ \E h \in 1..Len(snapshots), F \in Failures(CloseSteps) :
       \E r \in {CloseTransaction(Cur, Snapshot(h), F)} :
          /\ Bounded(r)
          /\ Assign(r)
          /\ snapshots' = [snapshots EXCEPT ![h].closed = TRUE,
                             ![h].committed = @ \/ (~r.rejected /\ r.def = snapshots[h].ID
                                                     /\ backendDefault # snapshots[h].ID)]
          /\ Record(Op("CloseTransaction", h, snapshots[h].ID, r))
  /\ UNCHANGED <<call, result, action, bootMode, stateFile, recoveryFile, initCalls, initMountOps>>

DoCloseTransactionOnError ==
  /\ MayTransact
  /\ \E h \in 1..Len(snapshots), F \in Failures(AbortSteps) :
       \E r \in {CloseTransactionOnError(Cur, Snapshot(h), F)} :
          /\ Bounded(r)
          /\ Assign(r)
          /\ snapshots' = [snapshots EXCEPT ![h].closed = TRUE]
          /\ Record(Op("CloseTransactionOnError", h, snapshots[h].ID, r))
  /\ UNCHANGED <<call, result, action, bootMode, stateFile, recoveryFile, initCalls, initMountOps>>

DoDeleteSnapshot ==
  /\ MayTransact
  /\ \E id \in backendIDs, F \in Failures(DeleteSteps) :
       \E r \in {DeleteSnapshot(Cur, id, F)} :
          /\ Bounded(r)
          /\ Assign(r)
          /\ Record(Op("DeleteSnapshot", 0, id, r))
  /\ UNCHANGED <<call, result, action, bootMode, snapshots, stateFile, recoveryFile, initCalls,
                 initMountOps>>

\* Config.WriteInstallState: the header and the marshalled state go to the
\* state path, then to the recovery path; the first failing write returns
WriteInstallState(files, i, F) ==
  LET data == [header |-> TRUE, snaps |-> i]
  IN IF "WriteState" \in F THEN [files EXCEPT !.err = TRUE]
     ELSE IF "WriteRecovery" \in F THEN [files EXCEPT !.state = data, !.err = TRUE]
     ELSE [state |-> data, recovery |-> data, err |-> FALSE]

\* after a commit the engine records the new snapshot in state.yaml
DoWriteInstallState ==
  /\ MayTransact
  /\ \E h \in 1..Len(snapshots), F \in Failures(WriteSteps) :
       /\ snapshots[h].committed
       /\ snapshots[h].ID \notin stateFile.snaps \/ snapshots[h].ID \notin recoveryFile.snaps
       /\ LET w == WriteInstallState([state |-> stateFile, recovery |-> recoveryFile,
                                      err |-> FALSE],
                                     (stateFile.snaps \cap backendIDs) \cup {snapshots[h].ID}, F)
          IN /\ stateFile' = w.state
             /\ recoveryFile' = w.recovery
             /\ Record([NoOp EXCEPT !.op = "WriteInstallState", !.h = h,
                                    !.id = snapshots[h].ID, !.err = w.err])
  /\ UNCHANGED <<call, result, action, bootMode, rootDir, activeSnapshotID, closureID, umountSet,
                 backendIDs, backendDefault, backendLastID, backendPrev, partitionInit,
                 snapMnt, workMnt, stateMnt, snapshots, grubEnv, initCalls, initMountOps>>

Next ==
  \/ DoInitSnapshotter
  \/ DoStartTransaction
  \/ DoCloseTransaction
  \/ DoCloseTransactionOnError
  \/ DoDeleteSnapshot
  \/ DoWriteInstallState

Spec == Init /\ [][Next]_vars

\* ====================================================================== claims

\* a CloseTransactionOnError that returned for the snapshot the StartTransaction
\* right before it returned
AbortedRightAfterStart ==
  /\ lastOp.op = "CloseTransactionOnError"
  /\ prevOp.op = "StartTransaction"
  /\ ~prevOp.err
  /\ lastOp.h = prevOp.h

C2_AbortDeletesSnapshot ==
  (lastOp.op = "CloseTransactionOnError" /\ ~lastOp.err) => lastOp.id \notin backendIDs

\* C3: after CloseTransaction(snapshot N) returned success the active snapshot
\* is N, for the backend and for the snapshotter, and the snapshot that was
\* active before is among the passive snapshots published to the bootloader.
C3_ExclusiveActive ==
  (lastOp.op = "CloseTransaction" /\ ~lastOp.err) =>
    /\ backendDefault = lastOp.id
    /\ activeSnapshotID = lastOp.id
    /\ backendPrev # 0 => Itoa(backendPrev) \in Range(grubEnv.passive_snapshots)

\* the snapshots that were started and not closed yet
Open == {h \in 1..Len(snapshots) : snapshots[h].InProgress /\ ~snapshots[h].closed}

\* C4: at most one snapshot is in progress at any time.
C4_OneInProgress == Cardinality(Open) <= 1

\* C5: once CloseTransaction or CloseTransactionOnError returned for a
\* snapshot, the snapshot is not in progress any more, and a CloseTransaction
\* on a snapshot that was closed before is rejected.
C5_ClosedNotInProgress ==
  /\ \A h \in 1..Len(snapshots) : snapshots[h].closed => ~snapshots[h].InProgress
  /\ (lastOp.op = "CloseTransaction" /\ lastOp.wasClosed) => lastOp.rejected

\* C6: the bootloader environment file written for a snapshot is written only
\* once state.yaml holds the entry of that snapshot.
C6_EnvAfterState ==
  grubEnv.writtenBy # 0 => grubEnv.writtenBy \in stateFile.snaps

\* C7: when StartTransaction returns an error after the backend created the new
\* snapshot, the backend holds the snapshots it held before the call.
C7_StartCleansUp ==
  (lastOp.op = "StartTransaction" /\ lastOp.err /\ lastOp.created # 0) =>
    backendIDs = lastOp.preIDs

\* C8: after a CloseTransaction that returned success GetSnapshots returns at
\* most MaxSnaps snapshots.
C8_RetentionBound ==
  (lastOp.op = "CloseTransaction" /\ ~lastOp.err) => Cardinality(View(Cur)) <= MaxSnaps

ProbedInitiated == lastOp.op = "InitSnapshotter" /\ backendDefault > 0 /\ rootDir # ""

\* C10, as claimed: on an initiated partition InitSnapshotter remounts the
\* state partition at @ whenever the action is install, upgrade or reset, and
\* makes no mounter call when the action is mount.
C10_RemountByAction ==
  ProbedInitiated =>
    /\ (action \in {"install", "upgrade", "reset"} /\ ~lastOp.err) => stateMnt = "@"
    /\ action = "mount" => initMountOps = 0

\* C10, amended: on an initiated partition InitSnapshotter remounts the state
\* partition at @ whenever the boot mode is neither active nor passive, and
\* makes no mounter call in active and in passive mode, whatever the action.
C10_RemountByBootMode ==
  ProbedInitiated =>
    /\ (bootMode \notin {"active", "passive"} /\ ~lastOp.err) =>
         (stateMnt = "@" /\ initMountOps >= 2)
    /\ bootMode \in {"active", "passive"} => (initMountOps = 0 /\ stateMnt = "snapshot")

\* C10 witness: an upgrade run from recovery remounted the state partition
C10_Witness ==
  /\ ProbedInitiated
  /\ action = "upgrade"
  /\ bootMode = "recovery"
  /\ ~lastOp.err
  /\ stateMnt = "@"

\* a CloseTransaction that returned success and wrote the environment file:
\* the first close of its snapshot, so that the file written for that id is
\* the one this call wrote and not what an earlier close of it left
CommitWroteEnv ==
  /\ lastOp.op = "CloseTransaction"
  /\ ~lastOp.err
  /\ ~lastOp.wasClosed
  /\ grubEnv.writtenBy = lastOp.id

\* the ids of a set as decimal strings, highest id first
NewestFirst(S) ==
  [i \in 1..Cardinality(S) |-> Itoa(Ascending(S)[Cardinality(S) + 1 - i])]

\* C11: the passive_snapshots value a commit leaves in grub_oem_env lists the
\* snapshots that exist other than the active one, newest first, and never
\* the snapshot that was just committed.
C11_PassiveSnapshots ==
  CommitWroteEnv =>
    /\ grubEnv.passive_snapshots = NewestFirst(backendIDs \ {backendDefault})
    /\ Itoa(lastOp.id) \notin Range(grubEnv.passive_snapshots)

\* C12: the fallback value counts from 0 and has one entry for the active
\* snapshot, one for each passive snapshot written with it and one for recovery.
C12_FallbackEntries ==
  grubEnv.writtenBy # 0 =>
    /\ Len(grubEnv.fallback) = Len(grubEnv.passive_snapshots) + 2
    /\ \A i \in 1..Len(grubEnv.fallback) : grubEnv.fallback[i] = Itoa(i - 1)

\* C12 witness: a commit wrote the environment file with two passive snapshots
C12_Witness ==
  /\ CommitWroteEnv
  /\ Len(grubEnv.passive_snapshots) = 2
  /\ Len(grubEnv.fallback) = 4

\* ------------------------------------------------------------ boot selection
\* strconv.Atoi of the bootloader side: the id a decimal string stands for
Atoi(str) == CHOOSE n \in 0..12 : Itoa(n) = str

\* the boot menu the bootloader builds from the environment file: entry 0 is
\* the default snapshot of the state partition, then one entry for each id of
\* passive_snapshots, then recovery
MenuEntries(env, def) ==
  <<[kind |-> "active", id |-> def]>>
    \o [i \in 1..Len(env.passive_snapshots) |->
          [kind |-> "passive", id |-> Atoi(env.passive_snapshots[i])]]
    \o <<[kind |-> "recovery", id |-> 0]>>

\* an entry boots when its image is there
Bootable(e, bootableIDs, recoveryOK) ==
  IF e.kind = "recovery" THEN recoveryOK ELSE e.id \in bootableIDs

\* the entries of the fallback value that exist in the menu, in its order
FallbackOrder(env, def) ==
  SelectSeq([i \in 1..Len(env.fallback) |-> Atoi(env.fallback[i]) + 1],
            LAMBDA n : n \in 1..Len(MenuEntries(env, def)))

\* the first entry of the fallback order that boots
RECURSIVE FirstBootable(_, _, _, _)
FirstBootable(order, menu, bootableIDs, recoveryOK) ==
  IF order = << >> THEN "none"
  ELSE IF Bootable(menu[Head(order)], bootableIDs, recoveryOK) THEN menu[Head(order)].kind
  ELSE FirstBootable(Tail(order), menu, bootableIDs, recoveryOK)

\* what the system boots: the default entry, then the fallback order
BootTarget(env, def, bootableIDs, recoveryOK) ==
  FirstBootable(<<1>> \o FallbackOrder(env, def), MenuEntries(env, def),
                bootableIDs, recoveryOK)

ClosedInProgress ==
  /\ lastOp.op \in {"CloseTransaction", "CloseTransactionOnError"}
  /\ ~lastOp.rejected
  /\ ~lastOp.wasClosed
  /\ snapshots[lastOp.h].InProgress

\* C25: when CloseTransaction or CloseTransactionOnError returned for a
\* snapshot in progress, with or without an error, the bind mount of the
\* working directory and the .snapshots subvolume mount are both released.
C25_MountsReleased ==
  ClosedInProgress => (workMnt = 0 /\ \A i \in IDs : snapMnt[i] = 0)

\* C26: a CloseTransaction that returned an error did not commit its
\* snapshot: the snapshot is not the default of the backend.
C26_ErrorMeansNotCommitted ==
  (ClosedInProgress /\ lastOp.op = "CloseTransaction" /\ lastOp.err) =>
    backendDefault # lastOp.id

\* the steps CloseTransaction makes before the commit of snapshot id
PreCommitSteps(id) ==
  IF id > 1 THEN <<"Unmount", "MirrorData", "RemoveAll", "ApplySELinuxLabels">>
  ELSE <<"Unmount", "ApplySELinuxLabels">>

\* the steps of log that are among names, in the order of log
StepsAmong(log, names) == SelectSeq(log, LAMBDA e : e.step \in names)

\* in the steps r.log of a CloseTransaction of snapshot id the commit comes
\* after the steps before the commit, all of them succeeded and in their
\* order; and when one of those failed there is no commit, DeleteSnapshot is
\* invoked and the call returns an error
CommitLast(r, id) ==
  /\ \A k \in 1..Len(r.log) :
       r.log[k].step = "CommitSnapshot" =>
         StepsAmong(SubSeq(r.log, 1, k - 1), Range(PreCommitSteps(id)))
           = [n \in 1..Len(PreCommitSteps(id)) |->
                [step |-> PreCommitSteps(id)[n], ok |-> TRUE]]
  /\ (\E k \in 1..Len(r.log) :
        r.log[k].step \in Range(PreCommitSteps(id)) /\ ~r.log[k].ok) =>
       /\ \A k \in 1..Len(r.log) : r.log[k].step # "CommitSnapshot"
       /\ \E k \in 1..Len(r.log) : r.log[k].step = "DeleteSnapshot"
       /\ r.err

NoneMasked(r) == r.err <=> \E k \in 1..Len(r.log) : ~r.log[k].ok

\* C28: every CloseTransactionOnError the snapshotter can make of a snapshot
\* in progress returns an error whenever the unmount of the working
\* directory, the deletion of the snapshot or the release of the .snapshots
\* mount fails, and returns nil only when all of them succeeded.
C28_AbortMasksNothing ==
  \A h \in 1..Len(snapshots) : \A F \in Failures(AbortSteps) :
     snapshots[h].InProgress => NoneMasked(CloseTransactionOnError(Cur, Snapshot(h), F))

\* ================================================================ the types
\* ------------------------------------------------------------------ bounds
MaxSize == 2       \* partition sizes run over 0..MaxSize
MaxExtra == 2      \* number of extra partitions of a spec

\* constants.BiosSize
BiosSize == 1

\* firmware and partition table names, and the partition flags
GPT == "gpt"
BIOS == "bios"
MSDOS == "msdos"
EFI == "efi"
bios == "bios_grub"
boot == "boot"

\* a *Partition: nil, or a pointer to a partition
Nil == << >>
Ptr(p) == <<p>>
Deref(x) == x[1]

\* a types.Partition, with the fields the functions below read or write
Partition(name, size, mountPoint) ==
  [Name |-> name, Size |-> size, MountPoint |-> mountPoint, Flags |-> << >>]

\* SetFirmwarePartitions leaving the bootloader partition in place next to
\* the BIOS partition
SetFirmwarePartitionsKeepingBoot(ep, firmware, partTable) ==
  IF firmware = EFI /\ partTable = GPT THEN
    IF ep.Boot = Nil THEN [ep |-> ep, err |-> TRUE]
    ELSE [ep |-> [ep EXCEPT !.BIOS = Nil], err |-> FALSE]
  ELSE IF firmware = BIOS /\ partTable = GPT THEN
    [ep |-> [ep EXCEPT !.BIOS = Ptr([Name |-> "p.bios", Size |-> BiosSize,
                                      MountPoint |-> "", Flags |-> <<bios>>])],
     err |-> FALSE]
  ELSE IF ep.State = Nil THEN [ep |-> ep, err |-> TRUE]
  ELSE [ep |-> [ep EXCEPT !.State = Ptr([Deref(ep.State) EXCEPT !.Flags = <<boot>>]),
                          !.Boot = Nil, !.BIOS = Nil],
        err |-> FALSE]

\* ElementalPartitions.SetFirmwarePartitions: ep is the struct after the call
SetFirmwarePartitions(ep, firmware, partTable) ==
  IF firmware = EFI /\ partTable = GPT THEN
    IF ep.Boot = Nil THEN [ep |-> ep, err |-> TRUE]
    ELSE [ep |-> [ep EXCEPT !.BIOS = Nil], err |-> FALSE]
  ELSE IF firmware = BIOS /\ partTable = GPT THEN
    [ep |-> [ep EXCEPT !.BIOS = Ptr([Name |-> "p.bios", Size |-> BiosSize,
                                      MountPoint |-> "", Flags |-> <<bios>>]),
                       !.Boot = Nil],
     err |-> FALSE]
  ELSE IF ep.State = Nil THEN [ep |-> ep, err |-> TRUE]
  ELSE [ep |-> [ep EXCEPT !.State = Ptr([Deref(ep.State) EXCEPT !.Flags = <<boot>>]),
                          !.Boot = Nil, !.BIOS = Nil],
        err |-> FALSE]

\* a slot of ElementalPartitions: nil, or a partition of any size
Slot(name, mountPoint) ==
  {Nil} \cup {Ptr(Partition(name, size, mountPoint)) : size \in 0..MaxSize}

\* a slot whose partition has its default size
DefaultSlot(name, size, mountPoint) == {Nil, Ptr(Partition(name, size, mountPoint))}

\* the inputs of SetFirmwarePartitions
FirmwareCalls ==
  {[fn |-> "SetFirmwarePartitions", firmware |-> f, partTable |-> pt,
    ep |-> [BIOS |-> b, Boot |-> e, OEM |-> Nil, Recovery |-> Nil, State |-> s,
            Persistent |-> Nil]] :
     f \in {EFI, BIOS}, pt \in {GPT, MSDOS},
     b \in DefaultSlot("p.bios", BiosSize, ""),
     e \in DefaultSlot("efi", 2, "/run/elemental/efi"),
     s \in Slot("state", "/run/elemental/state")}

\* the snapshotter is not in use while the functions of the types are called
Idle ==
  /\ action = "mount"
  /\ bootMode = "active"
  /\ rootDir = ""
  /\ activeSnapshotID = 0
  /\ closureID = 0
  /\ umountSet = FALSE
  /\ backendIDs = {}
  /\ backendDefault = 0
  /\ backendLastID = 0
  /\ backendPrev = 0
  /\ partitionInit = FALSE
  /\ snapMnt = [i \in IDs |-> 0]
  /\ workMnt = 0
  /\ stateMnt = "toplevel"
  /\ snapshots = << >>
  /\ grubEnv = NoEnv
  /\ stateFile = [header |-> FALSE, snaps |-> {}]
  /\ recoveryFile = [header |-> FALSE, snaps |-> {}]
  /\ initCalls = 0
  /\ calls = 0
  /\ initMountOps = 0
  /\ lastOp = NoOp
  /\ prevOp = NoOp

\* a call that has not returned yet
Pending(fn) == call.fn = fn /\ ~result.done

\* a call that returned
Returned(fn) == call.fn = fn /\ result.done

DoSetFirmwarePartitions ==
  /\ Pending("SetFirmwarePartitions")
  /\ result' = [done |-> TRUE,
                out |-> SetFirmwarePartitions(call.ep, call.firmware, call.partTable)]
  /\ UNCHANGED <<call, snapshotterVars>>

\* C15: a successful SetFirmwarePartitions leaves, for efi and gpt, the
\* bootloader partition and no BIOS partition; for bios and gpt, a BIOS
\* partition of 1 MiB flagged bios_grub and no bootloader partition; for bios
\* and msdos, neither, and the boot flag on the state partition; and never both.
C15_FirmwareMapping ==
  (Returned("SetFirmwarePartitions") /\ ~result.out.err) =>
    LET ep == result.out.ep
    IN /\ (call.firmware = EFI /\ call.partTable = GPT) =>
            (ep.BIOS = Nil /\ ep.Boot # Nil)
       /\ (call.firmware = BIOS /\ call.partTable = GPT) =>
            /\ ep.BIOS # Nil
            /\ Deref(ep.BIOS).Flags = <<"bios_grub">>
            /\ Deref(ep.BIOS).Size = 1
            /\ ep.Boot = Nil
       /\ (call.firmware = BIOS /\ call.partTable = MSDOS) =>
            /\ ep.BIOS = Nil
            /\ ep.Boot = Nil
            /\ "boot" \in Range(Deref(ep.State).Flags)
       /\ ~(ep.BIOS # Nil /\ ep.Boot # Nil)

\* C15 witness: bios and gpt on a struct that came with a bootloader partition
C15_Witness ==
  /\ Returned("SetFirmwarePartitions")
  /\ ~result.out.err
  /\ call.firmware = BIOS
  /\ call.partTable = GPT
  /\ call.ep.Boot # Nil
  /\ result.out.ep.BIOS # Nil

\* PartitionsByInstallOrder, the loop over the extra partitions: a partition
\* of size 0 is kept for the end unless one is kept already, in which case it
\* is dropped
RECURSIVE appendExtras(_, _, _)
appendExtras(partitions, lastPartition, extraPartitions) ==
  IF extraPartitions = << >> THEN
    IF lastPartition # Nil THEN Append(partitions, Deref(lastPartition)) ELSE partitions
  ELSE IF Head(extraPartitions).Size = 0 THEN
    IF lastPartition # Nil
    THEN appendExtras(partitions, lastPartition, Tail(extraPartitions))
    ELSE appendExtras(partitions, Ptr(Head(extraPartitions)), Tail(extraPartitions))
  ELSE appendExtras(Append(partitions, Head(extraPartitions)), lastPartition,
                    Tail(extraPartitions))

\* PartitionsByInstallOrder, a slot that is appended when it is set and not
\* excluded; excludes holds the names of the excluded partitions
appendSlot(partitions, slot, excludes) ==
  IF slot # Nil /\ Deref(slot).Name \notin excludes
  THEN Append(partitions, Deref(slot)) ELSE partitions

\* PartitionsByInstallOrder, the slots up to the state partition
firstSlots(ep, excludes) ==
  appendSlot(appendSlot(appendSlot(appendSlot(appendSlot(<< >>,
    ep.BIOS, excludes), ep.Boot, excludes), ep.OEM, excludes), ep.Recovery, excludes),
    ep.State, excludes)

\* ElementalPartitions.PartitionsByInstallOrder
PartitionsByInstallOrder(ep, extraPartitions, excludes) ==
  IF ep.Persistent # Nil /\ Deref(ep.Persistent).Name \notin excludes THEN
    IF Deref(ep.Persistent).Size = 0
    THEN appendExtras(firstSlots(ep, excludes), ep.Persistent, extraPartitions)
    ELSE appendExtras(Append(firstSlots(ep, excludes), Deref(ep.Persistent)), Nil,
                      extraPartitions)
  ELSE appendExtras(firstSlots(ep, excludes), Nil, extraPartitions)

\* the lists of extra partitions of a spec
ExtraPartitionLists ==
  UNION {[1..n -> {Partition("extra", size, "") : size \in 0..MaxSize}] : n \in 0..MaxExtra}

\* the partitions of a spec, without the firmware partitions
Layouts ==
  {[BIOS |-> Nil, Boot |-> Nil, OEM |-> o, Recovery |-> r, State |-> s, Persistent |-> p] :
     o \in Slot("oem", "/run/elemental/oem"),
     r \in Slot("recovery", "/run/elemental/recovery"),
     s \in Slot("state", "/run/elemental/state"),
     p \in Slot("persistent", "/run/elemental/persistent")}

\* the inputs of PartitionsByInstallOrder
OrderCalls ==
  {[fn |-> "PartitionsByInstallOrder", ep |-> ep, extraPartitions |-> x, excludes |-> e] :
     ep \in Layouts, x \in ExtraPartitionLists, e \in {{}, {"oem"}}}

DoPartitionsByInstallOrder ==
  /\ Pending("PartitionsByInstallOrder")
  /\ result' = [done |-> TRUE,
                out |-> PartitionsByInstallOrder(call.ep, call.extraPartitions,
                                                 call.excludes)]
  /\ UNCHANGED <<call, snapshotterVars>>

\* the places of the partitions of size 0 in a list
ZeroSized(list) == {i \in 1..Len(list) : list[i].Size = 0}

\* C16: the result of PartitionsByInstallOrder holds at most one partition
\* of size 0, and that one is its last element, whichever slot carries it.
C16_ZeroSizeLast ==
  Returned("PartitionsByInstallOrder") =>
    /\ Cardinality(ZeroSized(result.out)) <= 1
    /\ ZeroSized(result.out) \subseteq {Len(result.out)}

\* constants.SquashFs and constants.SystemLabel
SquashFs == "squashfs"
SystemLabel == "COS_SYSTEM"

\* ImageSource.IsEmpty: a source is its URI, the empty source has none
IsEmpty(source) == source = ""

\* what a Sanitize returns: the spec as it left it, the error, or a panic
Sanitized(spec) == [spec |-> spec, err |-> FALSE, panic |-> FALSE]
Rejected(spec) == [spec |-> spec, err |-> TRUE, panic |-> FALSE]
Panicked(spec) == [spec |-> spec, err |-> FALSE, panic |-> TRUE]

\* InstallSpec.Sanitize, the defaults of the recovery system: the source of
\* the system when it has none, the label by its filesystem
recoveryDefaults(i) ==
  [i EXCEPT !.RecoverySystem.Source = IF IsEmpty(@) THEN i.System ELSE @,
            !.RecoverySystem.Label =
               IF i.RecoverySystem.FS # SquashFs /\ @ = "" THEN SystemLabel
               ELSE IF i.RecoverySystem.FS = SquashFs THEN "" ELSE @]

\* InstallSpec.Sanitize, the count of the extra partitions of size 0
extraPartsSizeCheck(extraPartitions) ==
  Cardinality({n \in 1..Len(extraPartitions) : extraPartitions[n].Size = 0})

\* InstallSpec.Sanitize, the last step: the firmware partitions
firmwareSet(i, f) ==
  [spec |-> [i EXCEPT !.Partitions = f.ep], err |-> f.err, panic |-> FALSE]

\* InstallSpec.Sanitize from the check of the sizes on; Persistent.Size is
\* read through the pointer when exactly one extra partition has size 0
sizesChecked(i) ==
  IF extraPartsSizeCheck(i.ExtraPartitions) > 1 THEN Rejected(i)
  ELSE IF extraPartsSizeCheck(i.ExtraPartitions) = 1 /\ i.Partitions.Persistent = Nil
       THEN Panicked(i)
  ELSE IF extraPartsSizeCheck(i.ExtraPartitions) = 1
          /\ Deref(i.Partitions.Persistent).Size = 0
       THEN Rejected(i)
  ELSE firmwareSet(i, SetFirmwarePartitions(i.Partitions, i.Firmware, i.PartTable))

\* InstallSpec.Sanitize without its check of the system source
InstallSpecSanitizeAnySource(i) ==
  IF i.Partitions.State = Nil THEN Rejected(i)
  ELSE IF Deref(i.Partitions.State).MountPoint = "" THEN Rejected(i)
  ELSE sizesChecked(recoveryDefaults(i))

\* InstallSpec.Sanitize
InstallSpecSanitize(i) ==
  IF IsEmpty(i.System) /\ i.Iso = "" THEN Rejected(i)
  ELSE IF i.Partitions.State = Nil THEN Rejected(i)
  ELSE IF Deref(i.Partitions.State).MountPoint = "" THEN Rejected(i)
  ELSE sizesChecked(recoveryDefaults(i))

\* the system source and the iso of a spec
Sources == {[System |-> "", Iso |-> ""], [System |-> "", Iso |-> "iso"],
            [System |-> "oci:system", Iso |-> ""]}

\* the recovery system of a spec
RecoverySystems ==
  {[FS |-> SquashFs, Label |-> "COS_RECOVERY", Source |-> ""],
   [FS |-> "ext2", Label |-> "", Source |-> ""],
   [FS |-> "ext2", Label |-> "COS_RECOVERY", Source |-> "oci:recovery"]}

\* the partitions of an install spec
InstallLayouts ==
  {[BIOS |-> Nil, Boot |-> e, OEM |-> Nil, Recovery |-> Nil, State |-> s, Persistent |-> p] :
     e \in DefaultSlot("efi", 2, "/run/elemental/efi"),
     s \in {Nil, Ptr(Partition("state", 2, "")),
            Ptr(Partition("state", 2, "/run/elemental/state"))},
     p \in Slot("persistent", "/run/elemental/persistent")}

\* the inputs of InstallSpec.Sanitize
InstallSpecs ==
  {[System |-> src.System, Iso |-> src.Iso, Partitions |-> ep, ExtraPartitions |-> x,
    Firmware |-> f, PartTable |-> pt, RecoverySystem |-> r] :
     src \in Sources, ep \in InstallLayouts, x \in ExtraPartitionLists,
     f \in {EFI, BIOS}, pt \in {GPT, MSDOS}, r \in RecoverySystems}

InstallSanitizeCalls == {[fn |-> "InstallSpec.Sanitize", spec |-> i] : i \in InstallSpecs}

DoInstallSpecSanitize ==
  /\ Pending("InstallSpec.Sanitize")
  /\ result' = [done |-> TRUE, out |-> InstallSpecSanitize(call.spec)]
  /\ UNCHANGED <<call, snapshotterVars>>

\* the number of partitions of size 0 among the persistent partition and the
\* extra partitions of an install spec
ZeroSizedParts(i) ==
  Cardinality(ZeroSized(i.ExtraPartitions))
    + (IF i.Partitions.Persistent # Nil /\ Deref(i.Partitions.Persistent).Size = 0
       THEN 1 ELSE 0)

\* an install spec with a system source and a state partition
DefinedInstall(i) ==
  /\ ~IsEmpty(i.System)
  /\ i.Partitions.State # Nil
  /\ Deref(i.Partitions.State).MountPoint # ""

\* C17: given a system source and a state partition, InstallSpec.Sanitize
\* rejects the spec when more than one partition among the persistent and the
\* extra ones has size 0, and with at most one it returns normally, the size
\* check passed, with or without a persistent partition.
C17_ZeroSizeTieBreak ==
  (Returned("InstallSpec.Sanitize") /\ DefinedInstall(call.spec)) =>
    /\ ZeroSizedParts(call.spec) > 1 => result.out.err
    /\ ZeroSizedParts(call.spec) <= 1 =>
         /\ ~result.out.panic
         /\ result.out.err =>
              SetFirmwarePartitions(call.spec.Partitions, call.spec.Firmware,
                                    call.spec.PartTable).err

\* constants.MinPartSize, in the unit of the partition sizes of the model
MinPartSize == 2

\* MinDiskSize, the loop: the sizes of the partitions added up, MinPartSize
\* for a partition of size 0
RECURSIVE sumSizes(_)
sumSizes(partitions) ==
  IF partitions = << >> THEN 0
  ELSE (IF Head(partitions).Size = 0 THEN MinPartSize ELSE Head(partitions).Size)
       + sumSizes(Tail(partitions))

\* DiskSpec.MinDiskSize
MinDiskSize(d) == 2 + sumSizes(PartitionsByInstallOrder(d.Partitions, << >>, {}))

\* DiskSpec.Sanitize, the defaults of the recovery system
diskRecoveryDefaults(d) ==
  [d EXCEPT !.RecoverySystem.Source = IF IsEmpty(@) THEN d.System ELSE @,
            !.RecoverySystem.Label =
               IF d.RecoverySystem.FS = SquashFs THEN ""
               ELSE IF @ = "" THEN SystemLabel ELSE @]

\* DiskSpec.Sanitize, the check of the disk size
diskSizeChecked(d) ==
  IF d.Size # 0 /\ ~d.Expandable /\ d.Size <= MinDiskSize(d) THEN Rejected(d)
  ELSE Sanitized(d)

\* DiskSpec.Sanitize
DiskSpecSanitize(d) ==
  IF IsEmpty(d.System) THEN Rejected(d) ELSE diskSizeChecked(diskRecoveryDefaults(d))

\* the disk sizes of the model: up to one more than the largest minimum
DiskSizes == 0..(2 + 4 * (MaxSize + MinPartSize) + 1)

\* the inputs of DiskSpec.Sanitize
DiskSpecs ==
  {[Size |-> n, Partitions |-> ep, Expandable |-> x, System |-> src,
    RecoverySystem |-> [FS |-> "ext2", Label |-> "", Source |-> ""]] :
     n \in DiskSizes, ep \in Layouts, x \in BOOLEAN, src \in {"", "oci:system"}}

DiskSanitizeCalls == {[fn |-> "DiskSpec.Sanitize", spec |-> d] : d \in DiskSpecs}

\* the inputs of DiskSpec.MinDiskSize: the disk specs that ask for no size
MinDiskSizeCalls ==
  {[fn |-> "DiskSpec.MinDiskSize", spec |-> d] :
     d \in {e \in DiskSpecs : e.Size = 0 /\ ~e.Expandable /\ ~IsEmpty(e.System)}}

DoDiskSpecSanitize ==
  /\ Pending("DiskSpec.Sanitize")
  /\ result' = [done |-> TRUE, out |-> DiskSpecSanitize(call.spec)]
  /\ UNCHANGED <<call, snapshotterVars>>

DoMinDiskSize ==
  /\ Pending("DiskSpec.MinDiskSize")
  /\ result' = [done |-> TRUE, out |-> MinDiskSize(call.spec)]
  /\ UNCHANGED <<call, snapshotterVars>>

\* the room a slot needs: the larger of its size and MinPartSize
RoomOf(slot) ==
  IF slot = Nil THEN 0
  ELSE IF Deref(slot).Size > MinPartSize THEN Deref(slot).Size ELSE MinPartSize

\* 2 MiB and the room of every partition
RequiredSize(ep) ==
  2 + RoomOf(ep.BIOS) + RoomOf(ep.Boot) + RoomOf(ep.OEM) + RoomOf(ep.Recovery)
    + RoomOf(ep.State) + RoomOf(ep.Persistent)

\* C18: MinDiskSize is 2 plus the larger of size and MinPartSize for every
\* partition, and DiskSpec.Sanitize of a spec that is not expandable and asks
\* for a size rejects it exactly when the size is below that minimum.
C18_DiskSizeCheck ==
  /\ Returned("DiskSpec.MinDiskSize") => result.out = RequiredSize(call.spec.Partitions)
  /\ (/\ Returned("DiskSpec.Sanitize")
      /\ ~IsEmpty(call.spec.System)
      /\ ~call.spec.Expandable
      /\ call.spec.Size # 0) =>
       (result.out.err <=> call.spec.Size < RequiredSize(call.spec.Partitions))

\* ---------------------------------------------------------- state.yaml
\* constants.RecoveryPartName, StatePartName, OEMPartName and their labels
RecoveryPartName == "p.recovery"
StatePartName == "p.state"
OEMPartName == "p.oem"
RecoveryLabel == "COS_RECOVERY"
StateLabel == "COS_STATE"
OEMLabel == "COS_OEM"

\* the paths of state.yaml: under constants.RunningStateDir, under
\* constants.LegacyStateDir and in the RECOVERY partition
RunningStatePath == "/run/initramfs/cos-state/state.yaml"
LegacyStatePath == "legacy/state.yaml"
RecoveryStatePath == "recovery/state.yaml"
NoFile == [exists |-> FALSE]
StatePaths == {RunningStatePath, LegacyStatePath, RecoveryStatePath}

\* SystemState, the fields Label and FS
SystemState(fs, label) == [FS |-> fs, Label |-> label]

\* PartitionState; Snapshots maps the ids to their SystemState
PartitionState(fsLabel, recoveryImage, snaps) ==
  [FSLabel |-> fsLabel, RecoveryImage |-> recoveryImage, Snapshots |-> snaps]

\* InstallState; Partitions maps the names of the present partitions to
\* their PartitionState
InstallState(date, partitions) == [Date |-> date, Partitions |-> partitions]

\* yaml.Marshal of a SystemState: `label,omitempty` and `fs,omitempty`
marshalSystem(sys) ==
  [k \in (IF sys.Label = "" THEN {} ELSE {"label"})
        \cup (IF sys.FS = "" THEN {} ELSE {"fs"}) |->
     IF k = "label" THEN sys.Label ELSE sys.FS]

\* yaml.Marshal of a PartitionState: `label,omitempty`, `recovery,omitempty`
\* (left out for the nil pointer) and `snapshots,omitempty` (left out for
\* the empty map)
marshalPartition(part) ==
  [k \in (IF part.FSLabel = "" THEN {} ELSE {"label"})
        \cup (IF part.RecoveryImage = Nil THEN {} ELSE {"recovery"})
        \cup (IF DOMAIN part.Snapshots = {} THEN {} ELSE {"snapshots"}) |->
     IF k = "label" THEN part.FSLabel
     ELSE IF k = "recovery" THEN marshalSystem(Deref(part.RecoveryImage))
     ELSE [id \in DOMAIN part.Snapshots |-> marshalSystem(part.Snapshots[id])]]

\* yaml.Marshal of an InstallState: `date,omitempty` and the partitions inline
Marshal(i) ==
  [date |-> i.Date,
   hasDate |-> i.Date # "",
   parts |-> [n \in DOMAIN i.Partitions |-> marshalPartition(i.Partitions[n])]]

\* yaml.Unmarshal into a SystemState: a missing key leaves the zero value
unmarshalSystem(doc) ==
  SystemState(IF "fs" \in DOMAIN doc THEN doc["fs"] ELSE "",
              IF "label" \in DOMAIN doc THEN doc["label"] ELSE "")

\* yaml.Unmarshal into a PartitionState
unmarshalPartition(doc) ==
  PartitionState(IF "label" \in DOMAIN doc THEN doc["label"] ELSE "",
                 IF "recovery" \in DOMAIN doc THEN Ptr(unmarshalSystem(doc["recovery"]))
                 ELSE Nil,
                 IF "snapshots" \in DOMAIN doc
                 THEN [id \in DOMAIN doc["snapshots"] |->
                         unmarshalSystem(doc["snapshots"][id])]
                 ELSE << >>)

\* yaml.Unmarshal into the InstallState of LoadInstallState
Unmarshal(doc) ==
  InstallState(IF doc.hasDate THEN doc.date ELSE "",
               [n \in DOMAIN doc.parts |-> unmarshalPartition(doc.parts[n])])

\* the two writes with a failing state write that does not return
writeFilesPastStateError(fsys, data, statePath, recoveryPath, F) ==
  IF recoveryPath # "" /\ "WriteRecovery" \in F
  THEN [fs |-> [q \in DOMAIN fsys |->
                  IF q = statePath /\ "WriteState" \notin F THEN data ELSE fsys[q]],
        err |-> TRUE]
  ELSE [fs |-> [q \in DOMAIN fsys |->
                  IF q = recoveryPath \/ (q = statePath /\ "WriteState" \notin F)
                  THEN data ELSE fsys[q]],
        err |-> "WriteState" \in F]

\* Config.WriteInstallState, the two writes: the first failing one returns
writeFiles(fsys, data, statePath, recoveryPath, F) ==
  IF statePath # "" /\ "WriteState" \in F THEN [fs |-> fsys, err |-> TRUE]
  ELSE IF recoveryPath # "" /\ "WriteRecovery" \in F
       THEN [fs |-> [q \in DOMAIN fsys |-> IF q = statePath THEN data ELSE fsys[q]],
             err |-> TRUE]
       ELSE [fs |-> [q \in DOMAIN fsys |->
                       IF q \in {statePath, recoveryPath} THEN data ELSE fsys[q]],
             err |-> FALSE]

\* Config.WriteInstallState with the marshalled state: the header line and
\* the document
ConfigWriteInstallState(fsys, i, statePath, recoveryPath, F) ==
  writeFiles(fsys, [exists |-> TRUE, header |-> TRUE, parseable |-> TRUE,
                    doc |-> Marshal(i)],
             statePath, recoveryPath, F)

\* LoadInstallState returns the error of ReadFile or of yaml.Unmarshal
loadFailed(from) == [state |-> Nil, err |-> TRUE, panic |-> FALSE, from |-> from]

\* LoadInstallState, the default label of a partition that is present
\* with an empty FSLabel
defaultLabel(parts, name, label) ==
  IF name \in DOMAIN parts /\ parts[name].FSLabel = ""
  THEN [parts EXCEPT ![name].FSLabel = label]
  ELSE parts

\* LoadInstallState, the defaults of the recovery image: FS, then Label
recoveryImageDefaults(sys) ==
  SystemState(IF sys.FS = "" THEN SquashFs ELSE sys.FS,
              IF sys.Label = "" /\ sys.FS \notin {"", SquashFs} THEN SystemLabel
              ELSE sys.Label)

\* LoadInstallState, the branch of a recovery partition with an empty
\* FSLabel; recovery.RecoveryImage is dereferenced without a nil check
recoveryDefaulted(parts) ==
  [parts EXCEPT ![RecoveryPartName] =
     PartitionState(RecoveryLabel,
                    Ptr(recoveryImageDefaults(Deref(parts[RecoveryPartName].RecoveryImage))),
                    parts[RecoveryPartName].Snapshots)]

\* LoadInstallState once the file is unmarshalled into i
loaded(i, from) ==
  IF /\ RecoveryPartName \in DOMAIN i.Partitions
     /\ i.Partitions[RecoveryPartName].FSLabel = ""
  THEN IF i.Partitions[RecoveryPartName].RecoveryImage = Nil
       THEN [state |-> i, err |-> FALSE, panic |-> TRUE, from |-> from]
       ELSE [state |-> [i EXCEPT !.Partitions =
                          defaultLabel(recoveryDefaulted(defaultLabel(@, OEMPartName, OEMLabel)),
                                       StatePartName, StateLabel)],
             err |-> FALSE, panic |-> FALSE, from |-> from]
  ELSE [state |-> [i EXCEPT !.Partitions =
                     defaultLabel(defaultLabel(@, OEMPartName, OEMLabel),
                                  StatePartName, StateLabel)],
        err |-> FALSE, panic |-> FALSE, from |-> from]

\* LoadInstallState once the file is read; the header is a comment of the
\* document
unmarshalled(file, from) ==
  IF ~file.parseable THEN loadFailed(from) ELSE loaded(Unmarshal(file.doc), from)

\* Config.LoadInstallState: the running state path, the legacy path when
\* that cannot be read. The partitions of the model are oem, recovery and
\* state; bootloader and persistent are defaulted the way oem and state are.
LoadInstallState(fsys) ==
  IF fsys[RunningStatePath].exists THEN unmarshalled(fsys[RunningStatePath], "running")
  ELSE IF fsys[LegacyStatePath].exists THEN unmarshalled(fsys[LegacyStatePath], "legacy")
  ELSE loadFailed("legacy")

\* the states of the model
SystemStates == {SystemState(fs, l) : fs \in {"", SquashFs, "ext2"}, l \in {"", SystemLabel}}

PartitionStates(name) ==
  IF name = RecoveryPartName
  THEN {PartitionState(l, img, << >>) :
          l \in {"", RecoveryLabel}, img \in {Nil} \cup {Ptr(sys) : sys \in SystemStates}}
  ELSE IF name = StatePartName
  THEN {PartitionState(l, Nil, sn) :
          l \in {"", StateLabel}, sn \in {<< >>, [id \in {1} |-> SystemState("", "")]}}
  ELSE {PartitionState(l, Nil, << >>) : l \in {"", OEMLabel}}

PartNames == {OEMPartName, RecoveryPartName, StatePartName}

InstallStates ==
  {InstallState(date, parts) :
     date \in {"", "2023-01-01"},
     parts \in UNION {{f \in [N -> UNION {PartitionStates(n) : n \in PartNames}] :
                         \A n \in N : f[n] \in PartitionStates(n)} :
                      N \in SUBSET PartNames}}

\* no state.yaml anywhere
EmptyFs == [q \in StatePaths |-> NoFile]

\* the state written to the running state path and loaded again
RoundTripCalls == {[fn |-> "LoadInstallState(WriteInstallState)", state |-> i] :
                     i \in InstallStates}

DoRoundTrip ==
  /\ Pending("LoadInstallState(WriteInstallState)")
  /\ result' = [done |-> TRUE,
                out |-> LoadInstallState(
                          ConfigWriteInstallState(EmptyFs, call.state, RunningStatePath,
                                                  "", {}).fs)]
  /\ UNCHANGED <<call, snapshotterVars>>

\* C19: an InstallState written with WriteInstallState to the running state
\* path and read back with LoadInstallState is the state that was written,
\* the date aside; states with a present partition of empty label or a
\* recovery image of empty fs included.
C19_RoundTrip ==
  Returned("LoadInstallState(WriteInstallState)") =>
    /\ ~result.out.panic
    /\ ~result.out.err
    /\ result.out.state.Partitions = call.state.Partitions

\* the copies of state.yaml before the call: none, or the file of an
\* earlier state
PriorFiles ==
  {NoFile, [exists |-> TRUE, header |-> TRUE, parseable |-> TRUE,
            doc |-> Marshal(InstallState("", << >>))]}

\* the STATE and the RECOVERY copy hold the same file before the call
WriteCalls ==
  {[fn |-> "WriteInstallState", state |-> i, prior |-> f, F |-> F] :
     i \in InstallStates, f \in PriorFiles, F \in SUBSET {"WriteState", "WriteRecovery"}}

DoConfigWriteInstallState ==
  /\ Pending("WriteInstallState")
  /\ result' = [done |-> TRUE,
                out |-> ConfigWriteInstallState(
                          [q \in StatePaths |->
                             IF q = LegacyStatePath THEN NoFile ELSE call.prior],
                          call.state, RunningStatePath, RecoveryStatePath, call.F)]
  /\ UNCHANGED <<call, snapshotterVars>>

\* the file WriteInstallState writes for the state i
Written(i) ==
  [exists |-> TRUE, header |-> TRUE, parseable |-> TRUE, doc |-> Marshal(i)]

\* C20 as stated: from identical copies, after every WriteInstallState call
\* given both paths, successful or not, the STATE and the RECOVERY copy are
\* identical, and after a successful call they are the header line followed
\* by the serialized state.
C20_Lockstep ==
  Returned("WriteInstallState") =>
    /\ result.out.fs[RunningStatePath] = result.out.fs[RecoveryStatePath]
    /\ ~result.out.err => result.out.fs[RunningStatePath] = Written(call.state)

\* C20: from identical copies, after a successful WriteInstallState call
\* given both paths the two copies are the header line followed by the
\* serialized state; after a failed write of the STATE copy both copies are
\* what they were; after a failed write of the RECOVERY copy the STATE copy
\* is the new file and the RECOVERY copy is what it was.
C20_LockstepUnlessRecoveryWriteFails ==
  Returned("WriteInstallState") =>
    /\ result.out.err <=> call.F # {}
    /\ ~result.out.err =>
         /\ result.out.fs[RunningStatePath] = Written(call.state)
         /\ result.out.fs[RecoveryStatePath] = Written(call.state)
    /\ "WriteState" \in call.F =>
         /\ result.out.fs[RunningStatePath] = call.prior
         /\ result.out.fs[RecoveryStatePath] = call.prior
    /\ call.F = {"WriteRecovery"} =>
         /\ result.out.fs[RunningStatePath] = Written(call.state)
         /\ result.out.fs[RecoveryStatePath] = call.prior

C20_Witness ==
  /\ Returned("WriteInstallState")
  /\ call.prior # NoFile
  /\ call.prior # Written(call.state)
  /\ ~result.out.err
  /\ result.out.fs[RunningStatePath] = result.out.fs[RecoveryStatePath]
  /\ result.out.fs[RecoveryStatePath].header

\* a state.yaml that yaml.Unmarshal rejects
Unparseable ==
  [exists |-> TRUE, header |-> FALSE, parseable |-> FALSE,
   doc |-> Marshal(InstallState("", << >>))]

\* the file systems LoadInstallState reads: the running state file is
\* missing, unparseable or the file of a state, the legacy one is missing
\* or the file of a state with a state partition
LoadCalls ==
  {[fn |-> "LoadInstallState",
    fs |-> [q \in StatePaths |->
              IF q = RunningStatePath THEN r ELSE IF q = LegacyStatePath THEN l ELSE NoFile]] :
     r \in {NoFile, Unparseable} \cup {Written(i) : i \in InstallStates},
     l \in {NoFile,
            Written(InstallState("", [n \in {StatePartName} |->
                                       PartitionState("", Nil, << >>)]))}}

DoLoadInstallState ==
  /\ Pending("LoadInstallState")
  /\ result' = [done |-> TRUE, out |-> LoadInstallState(call.fs)]
  /\ UNCHANGED <<call, snapshotterVars>>

\* C29: for every parseable state file LoadInstallState returns, without
\* crashing, a state in which every partition entry that is present has a
\* non-empty FSLabel, a recovery entry with no label and no recovery image
\* included, and it reads the legacy path only when the running state file
\* cannot be read.
C29_LoadDefaults ==
  Returned("LoadInstallState") =>
    /\ ~result.out.panic
    /\ ~result.out.err =>
         \A n \in DOMAIN result.out.state.Partitions :
            result.out.state.Partitions[n].FSLabel # ""
    /\ result.out.from = "legacy" => ~call.fs[RunningStatePath].exists

\* ------------------------------------------ parse-elemental-cmdline.sh
\* An image name is the sequence of its parts, so that the patterns
\* *recovery*, *active* and *passive* are tests of what the name contains;
\* the empty string is the empty sequence.
Contains(img, word) == \E k \in 1..Len(img) : img[k] = word

\* the effects of a run: wait_for_dev, the queued elemental-fsck, the two
\* directories and the sentinels <mode>_mode written in each
Effects(waited, fsck, dirs, cos, elemental) ==
  [waited |-> waited, fsck |-> fsck, dirs |-> dirs, cos |-> cos, elemental |-> elemental]

\* the script returned before it did anything
Untouched == Effects(FALSE, FALSE, {}, {}, {})

\* cos_img once elemental.image is looked at with the image of cos-img/filename first
selectedImageCosFirst(cos_img, elemental_img) ==
  IF cos_img # << >> THEN cos_img ELSE elemental_img

\* [ -n "${elemental_img}" ] && cos_img="${elemental_img}"
selectedImage(cos_img, elemental_img) ==
  IF elemental_img # << >> THEN elemental_img ELSE cos_img

\* the case on ${cos_img}: the first pattern that matches
sentinelOf(cos_img) ==
  IF Contains(cos_img, "recovery") THEN {"recovery"}
  ELSE IF Contains(cos_img, "active") THEN {"active"}
  ELSE IF Contains(cos_img, "passive") THEN {"passive"}
  ELSE {}

\* the case on ${root}: LABEL=*, UUID=* and /dev/* set rootok
rootok(root) == root.kind \in {"LABEL", "UUID", "/dev"}

\* the script from wait_for_dev on
waitAndMark(cos_img, fsck_mode) ==
  Effects(TRUE, fsck_mode = "force", {"/run/cos", "/run/elemental"},
          sentinelOf(cos_img), sentinelOf(cos_img))

\* the script once ${root} is set
rootChecked(root, cos_img, fsck_mode) ==
  IF ~rootok(root) THEN Untouched ELSE waitAndMark(cos_img, fsck_mode)

\* the script from the image check on; the test
\* [ -z "${cos_img}" && -z "${elemental_img}" ] ends at the && with the
\* status of a [ without its ], so its return is never run
imageChecked(a) ==
  rootChecked(IF a.rootEnv.kind # "" THEN a.rootEnv ELSE a.rootArg,
              selectedImage(a.cos_img, a.elemental_img), a.fsck_mode)

\* parse-elemental-cmdline.sh
parseElementalCmdline(a) ==
  IF a.cosDisable THEN Untouched
  ELSE IF a.elementalDisable THEN Untouched
  ELSE imageChecked(a)

\* the image names of the model
ImageNames ==
  {<< >>, <<"/cOS/", "active", ".img">>, <<"/cOS/", "passive", ".img">>,
   <<"/cOS/", "recovery", ".img">>, <<"/cOS/", "passive", "-", "active", ".img">>,
   <<"/cOS/", "other", ".img">>}

\* the values of root: none, a label, a uuid, a device and a value the
\* case does not match
Roots == {[kind |-> k] : k \in {"", "LABEL", "UUID", "/dev", "live"}}

CmdlineCalls ==
  {[fn |-> "parse-elemental-cmdline.sh", cosDisable |-> cd, elementalDisable |-> ed,
    cos_img |-> c, elemental_img |-> e, rootEnv |-> re, rootArg |-> ra, fsck_mode |-> fm] :
     cd \in BOOLEAN, ed \in BOOLEAN, c \in ImageNames, e \in ImageNames,
     re \in {r \in Roots : r.kind \in {"", "LABEL"}}, ra \in Roots,
     fm \in {"", "force"}}

DoParseElementalCmdline ==
  /\ Pending("parse-elemental-cmdline.sh")
  /\ result' = [done |-> TRUE, out |-> parseElementalCmdline(call)]
  /\ UNCHANGED <<call, snapshotterVars>>

\* the modes an image name names
ModesNamed(img) == {m \in {"recovery", "active", "passive"} : Contains(img, m)}

\* the image the claim selects
SelectedByClaim == IF call.elemental_img # << >> THEN call.elemental_img ELSE call.cos_img

\* C14: a run of parse-elemental-cmdline.sh that reaches the sentinel stage
\* writes at most one of recovery_mode, active_mode and passive_mode under
\* /run/cos and the sentinel of the same mode, and no other, under
\* /run/elemental; the mode is one the selected image names, the image of
\* elemental.image before that of cos-img/filename; with rd.cos.disable or
\* elemental.disable no sentinel is written.
C14_BootModeSentinels ==
  Returned("parse-elemental-cmdline.sh") =>
    /\ Cardinality(result.out.cos) <= 1
    /\ result.out.elemental = result.out.cos
    /\ result.out.cos \subseteq ModesNamed(SelectedByClaim)
    /\ ("/run/cos" \in result.out.dirs /\ Cardinality(ModesNamed(SelectedByClaim)) = 1) =>
         result.out.cos = ModesNamed(SelectedByClaim)
    /\ (call.cosDisable \/ call.elementalDisable) =>
         result.out.cos = {} /\ result.out.elemental = {}

C14_Witness ==
  /\ Returned("parse-elemental-cmdline.sh")
  /\ ModesNamed(call.cos_img) = {"active"}
  /\ ModesNamed(call.elemental_img) = {"passive"}
  /\ result.out.cos = {"passive"}
  /\ result.out.elemental = {"passive"}

\* C30: with neither cos-img/filename= nor elemental.image= on the command
\* line the script returns at its image check: it does not call
\* wait_for_dev, queues no elemental-fsck and creates neither /run/cos nor
\* /run/elemental.
C30_NoImageNoOp ==
  (/\ Returned("parse-elemental-cmdline.sh")
   /\ call.cos_img = << >>
   /\ call.elemental_img = << >>) =>
    /\ ~result.out.waited
    /\ ~result.out.fsck
    /\ result.out.dirs = {}

\* ------------------------------------------------ ResetSpec, UpgradeSpec
\* the partition is nil or has no mount point
Undefined(slot) == slot = Nil \/ Deref(slot).MountPoint = ""

\* ResetSpec.Sanitize
ResetSpecSanitize(r) ==
  IF IsEmpty(r.System) THEN Rejected(r)
  ELSE IF Undefined(r.Partitions.State) THEN Rejected(r)
  ELSE Sanitized(r)

\* UpgradeSpec: the default label for non squashfs images
labelDefaulted(u) ==
  Sanitized([u EXCEPT !.RecoverySystem.Label =
                        IF u.RecoverySystem.FS # SquashFs /\ @ = "" THEN SystemLabel
                        ELSE IF u.RecoverySystem.FS = SquashFs THEN "" ELSE @])

\* UpgradeSpec.Sanitize, the check of the bootloader partition
bootloaderChecked(u) ==
  IF u.BootloaderUpgrade /\ Undefined(u.Partitions.Boot) THEN Rejected(u)
  ELSE labelDefaulted(u)

\* UpgradeSpec.Sanitize, the recovery upgrade
recoveryChecked(u) ==
  IF ~u.RecoveryUpgrade THEN bootloaderChecked(u)
  ELSE IF Undefined(u.Partitions.Recovery) THEN Rejected(u)
  ELSE bootloaderChecked([u EXCEPT !.RecoverySystem.Source =
                                     IF IsEmpty(@) THEN u.System ELSE @])

\* UpgradeSpec.Sanitize
UpgradeSpecSanitize(u) ==
  IF Undefined(u.Partitions.State) THEN Rejected(u)
  ELSE IF IsEmpty(u.System) THEN Rejected(u)
  ELSE recoveryChecked(u)

\* UpgradeSpec.SanitizeForRecoveryOnly
SanitizeForRecoveryOnly(u) ==
  IF Undefined(u.Partitions.State) THEN Rejected(u)
  ELSE IF Undefined(u.Partitions.Recovery) THEN Rejected(u)
  ELSE IF IsEmpty(u.RecoverySystem.Source) THEN Rejected(u)
  ELSE labelDefaulted(u)

\* the partitions of a reset and of an upgrade spec
MountedLayouts ==
  {[BIOS |-> Nil, Boot |-> e, OEM |-> Nil, Recovery |-> r, State |-> s, Persistent |-> Nil] :
     e \in {Nil, Ptr(Partition("efi", 2, "")), Ptr(Partition("efi", 2, "/run/elemental/efi"))},
     r \in {Nil, Ptr(Partition("recovery", 2, "")),
            Ptr(Partition("recovery", 2, "/run/elemental/recovery"))},
     s \in {Nil, Ptr(Partition("state", 2, "")),
            Ptr(Partition("state", 2, "/run/elemental/state"))}}

ResetSpecs ==
  {[System |-> src, Partitions |-> ep] : src \in {"", "oci:system"}, ep \in MountedLayouts}

UpgradeSpecs ==
  {[RecoveryUpgrade |-> ru, System |-> src, RecoverySystem |-> r, BootloaderUpgrade |-> bu,
    Partitions |-> ep] :
     ru \in BOOLEAN, src \in {"", "oci:system"}, r \in RecoverySystems, bu \in BOOLEAN,
     ep \in MountedLayouts}

SpecSanitizeCalls ==
  {[fn |-> "ResetSpec.Sanitize", spec |-> r] : r \in ResetSpecs}
    \cup {[fn |-> f, spec |-> u] :
            f \in {"UpgradeSpec.Sanitize", "UpgradeSpec.SanitizeForRecoveryOnly"},
            u \in UpgradeSpecs}

DoResetSpecSanitize ==
  /\ Pending("ResetSpec.Sanitize")
  /\ result' = [done |-> TRUE, out |-> ResetSpecSanitize(call.spec)]
  /\ UNCHANGED <<call, snapshotterVars>>

DoUpgradeSpecSanitize ==
  /\ Pending("UpgradeSpec.Sanitize")
  /\ result' = [done |-> TRUE, out |-> UpgradeSpecSanitize(call.spec)]
  /\ UNCHANGED <<call, snapshotterVars>>

DoSanitizeForRecoveryOnly ==
  /\ Pending("UpgradeSpec.SanitizeForRecoveryOnly")
  /\ result' = [done |-> TRUE, out |-> SanitizeForRecoveryOnly(call.spec)]
  /\ UNCHANGED <<call, snapshotterVars>>

\* C23: Sanitize of InstallSpec, ResetSpec and UpgradeSpec returns an error
\* whenever the State partition is nil or has an empty mount point, and
\* SanitizeForRecoveryOnly accepts a spec that defines the recovery
\* partition and a recovery source whether or not it has a State partition.
C23_StateRequired ==
  /\ (/\ \/ Returned("InstallSpec.Sanitize")
          \/ Returned("ResetSpec.Sanitize")
          \/ Returned("UpgradeSpec.Sanitize")
      /\ Undefined(call.spec.Partitions.State)) => result.out.err
  /\ (/\ Returned("UpgradeSpec.SanitizeForRecoveryOnly")
      /\ ~Undefined(call.spec.Partitions.Recovery)
      /\ ~IsEmpty(call.spec.RecoverySystem.Source)) => ~result.out.err

\* C24 as stated: InstallSpec.Sanitize and UpgradeSpec.Sanitize return an
\* error for every spec whose System source is empty, an install spec that
\* sets Iso included.
C24_EmptySourceInvalid ==
  (/\ Returned("InstallSpec.Sanitize") \/ Returned("UpgradeSpec.Sanitize")
   /\ IsEmpty(call.spec.System)) => result.out.err

\* C24: UpgradeSpec.Sanitize returns an error for every spec whose System
\* source is empty; InstallSpec.Sanitize returns an error for every spec
\* whose System source is empty and whose Iso is not set, and the empty
\* System source is not what it rejects a spec with Iso for.
C24_EmptySourceInvalidWithoutIso ==
  /\ (Returned("UpgradeSpec.Sanitize") /\ IsEmpty(call.spec.System)) => result.out.err
  /\ (/\ Returned("InstallSpec.Sanitize")
      /\ IsEmpty(call.spec.System)
      /\ call.spec.Iso = "") => result.out.err
  /\ (/\ Returned("InstallSpec.Sanitize")
      /\ call.spec.Iso # ""
      /\ ~result.out.panic) =>
       (result.out.err <=>
          InstallSpecSanitize([call.spec EXCEPT !.System = "oci:system"]).err)

C24_Witness ==
  /\ Returned("InstallSpec.Sanitize")
  /\ IsEmpty(call.spec.System)
  /\ call.spec.Iso = ""
  /\ ~Undefined(call.spec.Partitions.State)
  /\ result.out.err

\* ----------------------------------------------------------- MountSpec
\* the longest list of persistent paths of the model
MaxPaths == 3

\* A path is its directories and whether a separator ends it: "" is
\* Path(<< >>, FALSE), "/a/b" is Path(<<"a", "b">>, FALSE), "/a/" is
\* Path(<<"a">>, TRUE).
Path(dirs, slash) == [dirs |-> dirs, slash |-> slash]
EmptyPath == Path(<< >>, FALSE)

\* strings.Count(path, separator)
Count(path) == Len(path.dirs) + (IF path.slash THEN 1 ELSE 0)

\* slices.DeleteFunc(paths, func(s string) bool { return s == "" })
deleteEmpty(paths) == SelectSeq(paths, LAMBDA s : s # EmptyPath)

\* the orders of paths in which less(i, j) holds for no j before i
sorted(paths) ==
  \A i \in 1..Len(paths) : \A j \in 1..Len(paths) :
     i < j => ~(Count(paths[j]) < Count(paths[i]))

\* the list as it is, not sorted
sortSliceKeepingOrder(paths) == {paths}

\* sort.Slice with the less function on the separator counts: the sort is
\* not stable, so every sorted order of the elements is a result
sortSlice(paths) ==
  {s \in {[i \in 1..Len(paths) |-> paths[f[i]]] :
            f \in {g \in [1..Len(paths) -> 1..Len(paths)] :
                     \A a \in 1..Len(paths) : \E b \in 1..Len(paths) : g[b] = a}} :
     sorted(s)}

\* MountSpec.Sanitize, the ephemeral part once the persistent paths are p
ephemeralSanitized(spec, p) ==
  IF spec.Ephemeral.Type \notin {"tmpfs", "block"}
  THEN {[spec |-> [spec EXCEPT !.Persistent.Paths = p], err |-> TRUE]}
  ELSE {[spec |-> [spec EXCEPT !.Persistent.Paths = p, !.Ephemeral.Paths = e],
         err |-> FALSE] : e \in sortSlice(deleteEmpty(spec.Ephemeral.Paths))}

\* MountSpec.Sanitize: the results the call can return
MountSpecSanitize(spec) ==
  IF spec.Persistent.Mode \notin {"bind", "overlay"}
  THEN {[spec |-> spec, err |-> TRUE]}
  ELSE UNION {ephemeralSanitized(spec, p) :
                p \in sortSlice(deleteEmpty(spec.Persistent.Paths))}

\* the paths of the model
Paths ==
  {EmptyPath, Path(<<"a">>, FALSE), Path(<<"a">>, TRUE), Path(<<"a", "b">>, FALSE),
   Path(<<"c">>, FALSE)}

PathLists(n) == UNION {[1..k -> Paths] : k \in 0..n}

MountSpecs ==
  {[Persistent |-> [Mode |-> m, Paths |-> p], Ephemeral |-> [Type |-> ty, Paths |-> e]] :
     m \in {"bind", "overlay", "none"}, p \in PathLists(MaxPaths),
     ty \in {"tmpfs", "block", "none"},
     e \in {l \in PathLists(MaxPaths - 1) :
              \A k \in 1..Len(l) : l[k] \in {EmptyPath, Path(<<"a">>, FALSE),
                                               Path(<<"a", "b">>, FALSE)}}}

MountSanitizeCalls == {[fn |-> "MountSpec.Sanitize", spec |-> s] : s \in MountSpecs}

DoMountSpecSanitize ==
  /\ Pending("MountSpec.Sanitize")
  /\ \E r \in MountSpecSanitize(call.spec) : result' = [done |-> TRUE, out |-> r]
  /\ UNCHANGED <<call, snapshotterVars>>

\* how often x is in the list
Occurrences(list, x) == Cardinality({k \in 1..Len(list) : list[k] = x})

\* out is the non-empty paths of in, each as often as in in, by
\* non-decreasing number of separators
SortedNonEmpty(in, out) ==
  /\ \A k \in 1..Len(out) : out[k] # EmptyPath
  /\ \A x \in Paths \ {EmptyPath} : Occurrences(out, x) = Occurrences(in, x)
  /\ \A k \in 1..(Len(out) - 1) : Count(out[k]) <= Count(out[k + 1])

\* C21: after a successful MountSpec.Sanitize the persistent paths, and
\* likewise the ephemeral paths, are a permutation of the non-empty input
\* paths in non-decreasing order of the number of separators.
C21_PathOrdering ==
  (Returned("MountSpec.Sanitize") /\ ~result.out.err) =>
    /\ SortedNonEmpty(call.spec.Persistent.Paths, result.out.spec.Persistent.Paths)
    /\ SortedNonEmpty(call.spec.Ephemeral.Paths, result.out.spec.Ephemeral.Paths)

C21_Witness ==
  /\ Returned("MountSpec.Sanitize")
  /\ ~result.out.err
  /\ call.spec.Persistent.Paths = <<Path(<<"a", "b">>, FALSE), EmptyPath, Path(<<"c">>, FALSE)>>
  /\ result.out.spec.Persistent.Paths = <<Path(<<"c">>, FALSE), Path(<<"a", "b">>, FALSE)>>
  /\ call.spec.Ephemeral.Paths = <<Path(<<"a", "b">>, FALSE), Path(<<"a">>, FALSE)>>

\* p is a proper ancestor directory of q
Ancestor(p, q) ==
  /\ p # EmptyPath
  /\ Len(p.dirs) < Len(q.dirs)
  /\ SubSeq(q.dirs, 1, Len(p.dirs)) = p.dirs

\* C22: after MountSpec.Sanitize a persistent path that is a proper
\* ancestor directory of another one, with or without a separator at its
\* end, is before it in the list.
C22_ParentsFirst ==
  (Returned("MountSpec.Sanitize") /\ ~result.out.err) =>
    \A i \in 1..Len(result.out.spec.Persistent.Paths) :
      \A j \in 1..Len(result.out.spec.Persistent.Paths) :
        Ancestor(result.out.spec.Persistent.Paths[i], result.out.spec.Persistent.Paths[j])
          => i < j

\* ------------------------------------------------- the calls of the types
\* one call of one of the functions, not made yet
InitFunctions ==
  /\ Idle
  /\ \/ call \in FirmwareCalls
     \/ call \in OrderCalls
     \/ call \in InstallSanitizeCalls
     \/ call \in DiskSanitizeCalls
     \/ call \in MinDiskSizeCalls
     \/ call \in RoundTripCalls
     \/ call \in WriteCalls
     \/ call \in CmdlineCalls
     \/ call \in MountSanitizeCalls
     \/ call \in SpecSanitizeCalls
     \/ call \in LoadCalls
  /\ result = NoResult

NextFunctions ==
  \/ DoSetFirmwarePartitions
  \/ DoPartitionsByInstallOrder
  \/ DoInstallSpecSanitize
  \/ DoDiskSpecSanitize
  \/ DoMinDiskSize
  \/ DoRoundTrip
  \/ DoConfigWriteInstallState
  \/ DoParseElementalCmdline
  \/ DoMountSpecSanitize
  \/ DoResetSpecSanitize
  \/ DoUpgradeSpecSanitize
  \/ DoSanitizeForRecoveryOnly
  \/ DoLoadInstallState

SpecFunctions == InitFunctions /\ [][NextFunctions]_vars
====
